---- MODULE Spec2Model ----
(***************************************************************************)
(* The document ingestion and retrieval-augmented query pipeline of the   *)
(* KnowledgeBase Agent: ingest.py (DocumentProcessor), query.py            *)
(* (QueryEngine), vector_store.py (the Vector Store behind its interface)  *)
(* and firebase_db.py (the Metadata Store).  Every handler is one atomic   *)
(* action, except the per-file loop of process_uploaded_files, which runs  *)
(* one iteration per step while every other handler waits (the program is  *)
(* single-threaded).  Exceptions are values: an operator that can raise    *)
(* returns a record whose exc field is "" when it returned normally.       *)
(***************************************************************************)
EXTENDS Integers, Sequences, FiniteSets, TLC

VARIABLES
    vstore,      \* the Vector Store: the stored chunks, in insertion order
    documents,   \* documents.json: the list of Document records
    queries,     \* queries.json: the query log
    uploads,     \* the names of the files present in the uploads/ directory
    last         \* the last handler called: its inputs, what it returned, what it did

vars == <<vstore, documents, queries, uploads, last>>

(***************************************************************************)
(* Bounds of the model.                                                    *)
(***************************************************************************)
MaxStore == 2      \* chunks in the Vector Store
MaxLog == 1        \* entries of the query log
MaxBatch == 2      \* files of one upload
MaxCorpus == 4     \* chunks in the Vector Store when only process_and_store runs

(***************************************************************************)
(* Program constants.                                                      *)
(***************************************************************************)
ChunkSize == 1000
ChunkOverlap == 200
HashHexDigits == 8
PreviewLen == 200
TopQueries == 10
MaxRetries == 3

Min(a, b) == IF a <= b THEN a ELSE b

(***************************************************************************)
(* Python dictionaries are functions from keys to values.                  *)
(***************************************************************************)
Get(d, k, default) == IF k \in DOMAIN d THEN d[k] ELSE default

DictUpdate(base, other) ==
    [k \in (DOMAIN base) \cup (DOMAIN other) |->
        IF k \in DOMAIN other THEN other[k] ELSE base[k]]

\* str.lower() on the strings the model uses
Lower(s) ==
    CASE s = "HR" -> "hr"
      [] s = "Policies" -> "policies"
      [] s = ".PDF" -> ".pdf"
      [] s = ".TXT" -> ".txt"
      [] s = "Firebase" -> "firebase"
      [] s = "Pinecone" -> "pinecone"
      [] s = "OpenAI" -> "openai"
      [] OTHER -> s

\* the truth value Python gives a string or None
Truthy(s) == s # "None" /\ s # ""

(***************************************************************************)
(* Files.  A file has a name (stem and suffix) and the sections its        *)
(* extractor yields: each a text of len characters with the metadata the   *)
(* extractor attaches to it.                                               *)
(***************************************************************************)
FileA ==
    [stem |-> "a", ext |-> ".txt",
     sections |-> << [text |-> "T1", len |-> 1200, meta |-> [source |-> "uploads/a.txt"]] >>]

\* a PDF whose information dictionary carries a key named chunk_index
FileB ==
    [stem |-> "b", ext |-> ".PDF",
     sections |-> << [text |-> "T2", len |-> 300,
                      meta |-> [source |-> "uploads/b.PDF", page |-> 0, chunk_index |-> 7]] >>]

FileC ==
    [stem |-> "c", ext |-> ".exe",
     sections |-> << [text |-> "T3", len |-> 50, meta |-> [source |-> "uploads/c.exe"]] >>]

\* a PDF without pages
FileD == [stem |-> "d", ext |-> ".pdf", sections |-> << >>]

\* a PDF of two short pages: one of exactly 200 characters, one of fewer
FileE ==
    [stem |-> "e", ext |-> ".pdf",
     sections |-> << [text |-> "T4", len |-> 200,
                      meta |-> [source |-> "uploads/e.pdf", page |-> 0]],
                     [text |-> "T5", len |-> 150,
                      meta |-> [source |-> "uploads/e.pdf", page |-> 1]] >>]

Files == {FileA, FileB, FileC, FileD}

Categories == {"hr", "Policies"}

Filename(file) == <<file.stem, file.ext>>

\* Path(filename).stem
Stem(filename) == filename[1]

\* Path(file_path).suffix
Suffix(filename) == filename[2]

SupportedExtensions == {".pdf", ".docx", ".txt"}

TotalLen(sections) ==
    LET RECURSIVE Sum(_)
        Sum(i) == IF i = 0 THEN 0 ELSE sections[i].len + Sum(i - 1)
    IN Sum(Len(sections))

(***************************************************************************)
(* firebase_db.py: the Metadata Store.  MetaModes are what the storage     *)
(* does during one call: it works, the file cannot be read, the file       *)
(* cannot be written, or the call raises.                                  *)
(***************************************************************************)
MetaModes == {"ok", "load_fail", "save_fail", "raise"}

\* a load that hands out what the file last held even when it cannot be read
LoadJsonStale(stored, mode) == stored

\* a save that writes the new record behind what the file holds at that moment
SaveJsonAppending(stored, data, mode) ==
    IF mode = "save_fail" \/ data = << >> THEN stored
    ELSE Append(stored, data[Len(data)])

LoadJson(stored, mode) == IF mode = "load_fail" THEN << >> ELSE stored

SaveJson(stored, data, mode) == IF mode = "save_fail" THEN stored ELSE data

CreateDocument(docs, data, now, mode) ==
    IF mode = "raise"
    THEN [exc |-> "MetadataStoreError", id |-> <<"doc", 0, 0>>, documents |-> docs]
    ELSE LET loaded == LoadJson(docs, mode)
             docId == <<"doc", Len(loaded) + 1, now>>
             rec == DictUpdate(data, [id |-> docId, created_at |-> now, updated_at |-> now])
         IN [exc |-> "", id |-> docId,
             documents |-> SaveJson(docs, Append(loaded, rec), mode)]

\* the index of the first record with this id, 0 when there is none
FirstWithId(loaded, docId) ==
    LET hits == {i \in 1..Len(loaded) : Get(loaded[i], "id", "None") = docId}
    IN IF hits = {} THEN 0 ELSE CHOOSE i \in hits : \A j \in hits : i <= j

UpdateDocument(docs, docId, updateData, now, mode) ==
    IF mode = "raise"
    THEN [ok |-> FALSE, documents |-> docs]
    ELSE LET loaded == LoadJson(docs, mode)
             i == FirstWithId(loaded, docId)
         IN IF i = 0
            THEN [ok |-> FALSE, documents |-> docs]
            ELSE LET rec == DictUpdate(DictUpdate(loaded[i], updateData), [updated_at |-> now])
                 IN [ok |-> TRUE,
                     documents |-> SaveJson(docs, [loaded EXCEPT ![i] = rec], mode)]

DeleteDocument(docs, docId, mode) ==
    IF mode = "raise"
    THEN [ok |-> FALSE, documents |-> docs]
    ELSE LET loaded == LoadJson(docs, mode)
             i == FirstWithId(loaded, docId)
         IN IF i = 0
            THEN [ok |-> FALSE, documents |-> docs]
            ELSE [ok |-> TRUE,
                  documents |-> SaveJson(docs,
                      SubSeq(loaded, 1, i - 1) \o SubSeq(loaded, i + 1, Len(loaded)), mode)]

\* a log_query that returns without writing an entry
LogQueryNothing(log, data, now, mode) == [exc |-> "", queries |-> log]

LogQuery(log, data, now, mode) ==
    IF mode = "raise"
    THEN [exc |-> "MetadataStoreError", queries |-> log]
    ELSE LET loaded == LoadJson(log, mode)
             queryId == <<"query", Len(loaded) + 1, now>>
             rec == DictUpdate(data, [id |-> queryId, timestamp |-> now])
         IN [exc |-> "", queries |-> SaveJson(log, Append(loaded, rec), mode)]

\* the None that get_document returns: a value that is no record of the store
NoRecord == [none |-> TRUE]

\* get_document: the first record with this id, None when there is none
GetDocument(docs, docId, mode) ==
    LET loaded == LoadJson(docs, mode)
        i == FirstWithId(loaded, docId)
    IN IF i = 0 THEN NoRecord ELSE loaded[i]

GetAllDocuments(docs, mode) == LoadJson(docs, mode)

\* the elements of s without repetition, in the order of their first occurrence
RECURSIVE Distinct(_)
Distinct(s) ==
    IF s = << >> THEN << >>
    ELSE LET front == Distinct(SubSeq(s, 1, Len(s) - 1))
             x == s[Len(s)]
         IN IF \E i \in 1..Len(front) : front[i] = x THEN front ELSE Append(front, x)

\* item put behind all the items of sorted, whatever they count
InsertAtEnd(sorted, item) == Append(sorted, item)

\* item put behind the items of sorted that count at least as much
InsertByCount(sorted, item) ==
    LET ahead == {i \in 1..Len(sorted) : sorted[i].count >= item.count}
        n == IF ahead = {} THEN 0 ELSE CHOOSE i \in ahead : \A j \in ahead : j <= i
    IN SubSeq(sorted, 1, n) \o <<item>> \o SubSeq(sorted, n + 1, Len(sorted))

\* sorted(items, key=count, reverse=True): a stable sort
RECURSIVE SortByCount(_)
SortByCount(items) ==
    IF items = << >> THEN << >>
    ELSE InsertByCount(SortByCount(SubSeq(items, 1, Len(items) - 1)), items[Len(items)])

GetQueryStats(log, mode) ==
    LET loaded == LoadJson(log, mode)
        categoryOf(i) == Get(loaded[i], "category_filter", "general")
        questionOf(i) == Get(loaded[i], "question", "")
        asked == SelectSeq([i \in 1..Len(loaded) |-> questionOf(i)], LAMBDA q : q # "")
        questions == Distinct(asked)
        counted == [n \in 1..Len(questions) |->
                       [question |-> questions[n],
                        count |-> Cardinality({i \in 1..Len(loaded) :
                                                 questionOf(i) = questions[n]})]]
        sorted == SortByCount(counted)
    IN [total_queries |-> Len(loaded),
        categories_searched |->
            [c \in {categoryOf(i) : i \in 1..Len(loaded)} |->
                Cardinality({i \in 1..Len(loaded) : categoryOf(i) = c})],
        popular_queries |-> SubSeq(sorted, 1, Min(TopQueries, Len(sorted)))]

(***************************************************************************)
(* vector_store.py: the Vector Store.  A stored chunk keeps the id the     *)
(* store gave it, its content and its metadata.  Nothing in the program    *)
(* deletes from the store, so the ids are the positions.                   *)
(***************************************************************************)
\* a store that keeps one chunk per document_id
AddDocumentsOncePerId(vs, docs, fails) ==
    LET known == {vs[j].meta["document_id"] : j \in 1..Len(vs)}
        fresh == SelectSeq(docs, LAMBDA d : d.meta["document_id"] \notin known)
    IN IF fails
       THEN [exc |-> "VectorStoreError", vstore |-> vs, ids |-> << >>]
       ELSE [exc |-> "",
             vstore |-> vs \o [i \in 1..Len(fresh) |->
                                 [id |-> Len(vs) + i, content |-> fresh[i].content,
                                  meta |-> fresh[i].meta]],
             ids |-> [i \in 1..Len(fresh) |-> Len(vs) + i]]

AddDocuments(vs, docs, fails) ==
    IF fails
    THEN [exc |-> "VectorStoreError", vstore |-> vs, ids |-> << >>]
    ELSE [exc |-> "",
          vstore |-> vs \o [i \in 1..Len(docs) |->
                              [id |-> Len(vs) + i, content |-> docs[i].content,
                               meta |-> docs[i].meta]],
          ids |-> [i \in 1..Len(docs) |-> Len(vs) + i]]

\* The ways an embedding can rank the stored chunks for a query, as far as a
\* search for k chunks looks: the positions of the Min(k, n) most similar of
\* n chunks, the most similar first.
Rankings(n, k) ==
    {r \in [1..Min(k, n) -> 1..n] : \A i, j \in 1..Min(k, n) : r[i] = r[j] => i = j}

\* the k chunks most similar to the query, the most similar first
SimilaritySearch(vs, ranking, k, fails) ==
    IF fails
    THEN [exc |-> "VectorStoreError", docs |-> << >>]
    ELSE [exc |-> "", docs |-> [i \in 1..Min(k, Len(ranking)) |-> vs[ranking[i]]]]

(***************************************************************************)
(* ingest.py: DocumentProcessor.                                           *)
(***************************************************************************)
\* validate_file: the path is looked up, then the suffix is checked
ValidateFile(file, exists) ==
    IF ~exists
    THEN [ok |-> FALSE, events |-> <<"stat">>]
    ELSE [ok |-> Lower(Suffix(Filename(file))) \in SupportedExtensions,
          events |-> <<"stat">>]

ExtractText(file, exists, fails) ==
    LET v == ValidateFile(file, exists) IN
    IF ~v.ok
    THEN [exc |-> "ValueError: Invalid file", docs |-> << >>, events |-> v.events]
    ELSE IF fails
    THEN [exc |-> "ExtractionError", docs |-> << >>, events |-> v.events \o <<"extract">>]
    ELSE [exc |-> "", docs |-> file.sections, events |-> v.events \o <<"extract">>]

\* RecursiveCharacterTextSplitter on a text of total characters: pieces of at
\* most ChunkSize characters, each starting ChunkOverlap before the end of the
\* one before it; an empty text gives no piece
RECURSIVE Slices(_, _)
Slices(from, total) ==
    IF total - from <= 0 THEN << >>
    ELSE IF total - from <= ChunkSize THEN << [from |-> from, len |-> total - from] >>
    ELSE << [from |-> from, len |-> ChunkSize] >>
         \o Slices(from + ChunkSize - ChunkOverlap, total)

SplitSection(section) ==
    LET s == Slices(0, section.len)
    IN [i \in 1..Len(s) |->
          [content |-> [text |-> section.text, from |-> s[i].from, len |-> s[i].len],
           meta |-> section.meta]]

RECURSIVE ChunkDocuments(_)
ChunkDocuments(docs) ==
    IF docs = << >> THEN << >>
    ELSE SplitSection(Head(docs)) \o ChunkDocuments(Tail(docs))

TextCode(text) ==
    CASE text = "T1" -> 11
      [] text = "T2" -> 23
      [] text = "T3" -> 37
      [] OTHER -> 41

\* a digest of the content: a number below 2^31, standing for hashlib.md5
Digest(content) == TextCode(content.text) * 1000003 + content.from * 31 + content.len

\* what d hexadecimal digits hold of a number below 2^31
HexDigits(x, d) == IF d >= 8 THEN x ELSE x % (16 ^ d)

\* content_hash[:8]
Md5Prefix(content) == HexDigits(Digest(content), HashHexDigits)

GenerateDocumentId(content, filename) == <<Stem(filename), Md5Prefix(content)>>

PrepareMetadata(chunk, filename, chunkIndex, now) ==
    LET base == [filename |-> filename,
                 chunk_index |-> chunkIndex,
                 chunk_size |-> chunk.content.len,
                 upload_timestamp |-> now,
                 document_id |-> GenerateDocumentId(chunk.content, filename)]
    IN DictUpdate(base, chunk.meta)

\* the loop of process_and_store over the chunks
ProcessedDocs(chunks, filename, category, now) ==
    [i \in 1..Len(chunks) |->
        [content |-> chunks[i].content,
         meta |-> DictUpdate(PrepareMetadata(chunks[i], filename, i - 1, now),
                             [category |-> category])]]

\* The body of the try block of process_and_store.  env says what fails
\* during the call: the extraction, the Vector Store insertion, and what the
\* Metadata Store does.
ProcessAndStoreBody(vs, docs, now, file, category, env) ==
    LET filename == Filename(file)
        ex == ExtractText(file, env.exists, env.extractFails)
    IN
    IF ex.exc # ""
    THEN [exc |-> ex.exc, vstore |-> vs, documents |-> docs, events |-> ex.events,
          stored |-> << >>, result |-> [success |-> FALSE]]
    ELSE IF ex.docs = << >>
    THEN [exc |-> "ValueError: No content extracted from document",
          vstore |-> vs, documents |-> docs, events |-> ex.events,
          stored |-> << >>, result |-> [success |-> FALSE]]
    ELSE
    LET processed == ProcessedDocs(ChunkDocuments(ex.docs), filename, category, now)
        documentIds == [i \in 1..Len(processed) |-> processed[i].meta["document_id"]]
        added == AddDocuments(vs, processed, env.addFails)
    IN
    IF added.exc # ""
    THEN [exc |-> added.exc, vstore |-> vs, documents |-> docs,
          events |-> ex.events \o <<"vector_add">>,
          stored |-> << >>, result |-> [success |-> FALSE]]
    ELSE
    LET info == [filename |-> filename,
                 category |-> category,
                 total_chunks |-> Len(processed),
                 upload_timestamp |-> now,
                 file_size |-> TotalLen(file.sections),
                 file_type |-> Lower(Suffix(filename)),
                 vector_ids |-> added.ids,
                 document_ids |-> documentIds]
        created == CreateDocument(docs, info, now, env.meta)
    IN
    IF created.exc # ""
    THEN [exc |-> created.exc, vstore |-> added.vstore, documents |-> docs,
          events |-> ex.events \o <<"vector_add", "meta_create">>,
          stored |-> processed, result |-> [success |-> FALSE]]
    ELSE [exc |-> "", vstore |-> added.vstore, documents |-> created.documents,
          events |-> ex.events \o <<"vector_add", "meta_create">>,
          stored |-> processed,
          result |-> [success |-> TRUE,
                      filename |-> filename,
                      chunks_created |-> Len(processed),
                      metadata_id |-> created.id]]

\* Two envs that differ only in a step the call does not reach give the same
\* call: of these, the one whose unreached steps work stands for all.
ReachedByIngest(file, env) ==
    LET ex == ExtractText(file, env.exists, env.extractFails) IN
    /\ ~ValidateFile(file, env.exists).ok => ~env.extractFails
    /\ (ex.exc # "" \/ ex.docs = << >>) => (~env.addFails /\ env.meta = "ok")

\* process_and_store without its except clause
ProcessAndStoreUncaught(vs, docs, now, file, category, env) ==
    ProcessAndStoreBody(vs, docs, now, file, category, env)

\* process_and_store: the except clause turns every exception of the body
\* into a result with success = False
ProcessAndStore(vs, docs, now, file, category, env) ==
    LET b == ProcessAndStoreBody(vs, docs, now, file, category, env)
    IN IF b.exc = ""
       THEN b
       ELSE [b EXCEPT !.exc = "",
                      !.result = [success |-> FALSE,
                                  filename |-> Filename(file),
                                  error |-> b.exc]]

\* What the surroundings do during one call: whether the file is there, and
\* what fails.  A call ends at its first exception, so a failure is listed
\* only with the steps before it working.
IngestEnvs ==
    {e \in [exists : BOOLEAN, extractFails : BOOLEAN, addFails : BOOLEAN,
            meta : MetaModes] :
        /\ ~e.exists => ~e.extractFails
        /\ e.extractFails => ~e.addFails
        /\ (~e.exists \/ e.extractFails \/ e.addFails) => e.meta = "ok"}

(***************************************************************************)
(* query.py: QueryEngine.                                                  *)
(***************************************************************************)
ModelName == "gpt-3.5-turbo"

Questions == {"q1"}

\* the category filters a caller passes: None, or a category in any case
Filters == {"None", "HR", "policies"}

\* retrieve_documents without the category filter
RetrieveDocumentsUnfiltered(vs, ranking, k, categoryFilter, searchFails) ==
    LET s == SimilaritySearch(vs, ranking, k, searchFails) IN
    IF s.exc # "" THEN << >> ELSE s.docs

\* the chunk is of the category the filter names
InCategory(d, categoryFilter) ==
    Lower(Get(d.meta, "category", "")) = Lower(categoryFilter)

\* retrieve_documents with the filter applied to the whole index before the
\* k chunks are taken
RetrieveDocumentsWidening(vs, ranking, k, categoryFilter, searchFails) ==
    LET s == SimilaritySearch(vs, ranking, k, searchFails) IN
    IF s.exc # "" THEN << >>
    ELSE IF Truthy(categoryFilter)
    THEN LET matching == SelectSeq(vs, LAMBDA d : InCategory(d, categoryFilter))
         IN SubSeq(matching, 1, Min(k, Len(matching)))
    ELSE s.docs

RetrieveDocuments(vs, ranking, k, categoryFilter, searchFails) ==
    LET s == SimilaritySearch(vs, ranking, k, searchFails) IN
    IF s.exc # "" THEN << >>
    ELSE IF Truthy(categoryFilter)
    THEN SelectSeq(s.docs, LAMBDA d : InCategory(d, categoryFilter))
    ELSE s.docs

FormatContext(docs) ==
    IF docs = << >> THEN <<"No relevant context found.">>
    ELSE [i \in 1..Len(docs) |->
            [source |-> i,
             filename |-> Get(docs[i].meta, "filename", "Unknown"),
             chunk |-> Get(docs[i].meta, "chunk_index", 0),
             content |-> docs[i].content]]

\* generate_answer: the prompt is sent to the model; an error of the
\* invocation becomes the text of the answer
GenerateAnswer(question, context, llmFails) ==
    IF llmFails
    THEN [kind |-> "generation_error", text |-> "LLMError", calls |-> 1]
    ELSE [kind |-> "generated", text |-> question, calls |-> 1]

\* a preview that also cuts a content of exactly 200 characters
ContentPreviewEager(content) ==
    IF content.len >= PreviewLen
    THEN [text |-> content.text, from |-> content.from, len |-> PreviewLen,
          ellipsis |-> TRUE]
    ELSE [text |-> content.text, from |-> content.from, len |-> content.len,
          ellipsis |-> FALSE]

\* page_content[:200] + "..." when the content is longer than 200 characters
ContentPreview(content) ==
    IF content.len > PreviewLen
    THEN [text |-> content.text, from |-> content.from, len |-> PreviewLen,
          ellipsis |-> TRUE]
    ELSE [text |-> content.text, from |-> content.from, len |-> content.len,
          ellipsis |-> FALSE]

ExtractCitations(docs) ==
    [i \in 1..Len(docs) |->
        [source_number |-> i,
         filename |-> Get(docs[i].meta, "filename", "Unknown"),
         chunk_index |-> Get(docs[i].meta, "chunk_index", 0),
         category |-> Get(docs[i].meta, "category", "general"),
         upload_timestamp |-> Get(docs[i].meta, "upload_timestamp", "Unknown"),
         content_preview |-> ContentPreview(docs[i].content)]]

\* What can fail during one call.  After a failed search nothing else is
\* called; the model and the log can fail in every combination.
QueryEnvs ==
    {e \in [searchFails : BOOLEAN, llmFails : BOOLEAN, log : MetaModes] :
        e.searchFails => (~e.llmFails /\ e.log = "ok")}

\* a test that never finds the list empty
NoDocumentsNever(docs) == FALSE

\* if not documents:
NoDocuments(docs) == docs = << >>

\* an except clause that lets the error of log_query go on
PropagateLogError(e) == e

\* except Exception around log_query: a warning is logged and the error ends
\* there
SwallowLogError(e) == ""

\* The body of the try block of query.  ranking is the order in which the
\* embedding ranks the stored chunks for this question; env says what fails
\* during the call.
QueryBody(vs, log, now, question, ranking, k, categoryFilter, env) ==
    LET docs == RetrieveDocuments(vs, ranking, k, categoryFilter, env.searchFails) IN
    IF NoDocuments(docs)
    THEN [exc |-> "", queries |-> log, retrieved |-> 0, llmCalls |-> 0,
          llmError |-> FALSE, logError |-> FALSE,
          response |-> [answer |-> [kind |-> "no_relevant_information", text |-> ""],
                        sources |-> << >>,
                        query |-> question,
                        timestamp |-> now,
                        model |-> ModelName,
                        success |-> FALSE]]
    ELSE
    LET context == FormatContext(docs)
        gen == GenerateAnswer(question, context, env.llmFails)
        answer == [kind |-> gen.kind, text |-> gen.text]
        citations == ExtractCitations(docs)
        logged == LogQuery(log,
                           [question |-> question,
                            answer |-> answer,
                            documents_retrieved |-> Len(docs),
                            timestamp |-> now,
                            model |-> ModelName,
                            category_filter |-> categoryFilter],
                           now, env.log)
    IN [exc |-> SwallowLogError(logged.exc), queries |-> logged.queries,
        retrieved |-> Len(docs),
        llmCalls |-> gen.calls, llmError |-> env.llmFails,
        logError |-> (logged.exc # ""),
        response |-> [answer |-> answer,
                      sources |-> citations,
                      query |-> question,
                      timestamp |-> now,
                      model |-> ModelName,
                      documents_retrieved |-> Len(docs),
                      category_filter |-> categoryFilter,
                      success |-> TRUE]]

\* Two envs that differ only in a step the call does not reach give the same
\* call: of these, the one whose unreached steps work stands for all.
ReachedByQuery(vs, ranking, k, categoryFilter, env) ==
    RetrieveDocuments(vs, ranking, k, categoryFilter, env.searchFails) = << >>
        => (~env.llmFails /\ env.log = "ok")

\* query: the outer except clause turns an exception of the body into a
\* response with success = False
Query(vs, log, now, question, ranking, k, categoryFilter, env) ==
    LET b == QueryBody(vs, log, now, question, ranking, k, categoryFilter, env)
    IN IF b.exc = ""
       THEN b
       ELSE [b EXCEPT !.exc = "",
                      !.response = [answer |-> [kind |-> "processing_error", text |-> b.exc],
                                    sources |-> << >>,
                                    query |-> question,
                                    timestamp |-> now,
                                    model |-> ModelName,
                                    success |-> FALSE,
                                    error |-> b.exc]]

(***************************************************************************)
(* AdvancedQueryEngine.query_with_followup.  rankingOf is the order in     *)
(* which the embedding ranks the stored chunks for each question, envOf    *)
(* what fails while each question is asked.                                *)
(***************************************************************************)
\* an entry that also lists the sources of the main response
FollowUpEntryCarrying(main, followUp, r) ==
    [question |-> followUp,
     answer |-> r.response.answer,
     sources |-> main.response.sources \o r.response.sources]

\* the entry appended for one follow-up question
FollowUpEntry(main, followUp, r) ==
    [question |-> followUp,
     answer |-> r.response.answer,
     sources |-> r.response.sources]

\* the loop over the follow-up questions: each is a call of query with the
\* default filter, on the log the calls before it left
RECURSIVE FollowUps(_, _, _, _, _, _, _, _)
FollowUps(main, vs, log, now, followUps, k, rankingOf, envOf) ==
    IF followUps = << >>
    THEN [queries |-> log, entries |-> << >>, llmCalls |-> 0]
    ELSE LET f == Head(followUps)
             r == Query(vs, log, now, f, rankingOf[f], k, "None", envOf[f])
             rest == FollowUps(main, vs, r.queries, now, Tail(followUps), k,
                               rankingOf, envOf)
         IN [queries |-> rest.queries,
             entries |-> <<FollowUpEntry(main, f, r)>> \o rest.entries,
             llmCalls |-> r.llmCalls + rest.llmCalls]

QueryWithFollowup(vs, log, now, question, followUps, k, rankingOf, envOf) ==
    LET main == Query(vs, log, now, question, rankingOf[question], k, "None",
                      envOf[question])
    IN IF followUps = << >>
       THEN [queries |-> main.queries, response |-> main.response,
             llmCalls |-> main.llmCalls]
       ELSE LET f == FollowUps(main, vs, main.queries, now, followUps, k,
                               rankingOf, envOf)
            IN [queries |-> f.queries,
                response |-> DictUpdate(main.response, [follow_ups |-> f.entries]),
                llmCalls |-> main.llmCalls + f.llmCalls]

(***************************************************************************)
(* The factories that read the configuration: get_metadata_db,             *)
(* get_vector_store, ModelFactory.create_model and get_model.  An          *)
(* environment variable that is not set is "None".                         *)
(***************************************************************************)
\* METADATA_DB_TYPE, FIREBASE_AVAILABLE, the two Firebase settings, whether
\* the credentials file is there, and whether FirebaseMetadataDB() raises
MetadataConfigs ==
    [dbType : {"local", "firebase", "Firebase"},
     sdk : BOOLEAN,
     path : {"None", "", "sa.json"},
     project : {"None", "kb"},
     fileExists : BOOLEAN,
     initFails : BOOLEAN]

\* get_metadata_db without the try around FirebaseMetadataDB()
GetMetadataDbUncaught(cfg) ==
    IF Lower(cfg.dbType) = "firebase" /\ cfg.sdk
    THEN IF ~Truthy(cfg.path) \/ ~Truthy(cfg.project)
         THEN [exc |-> "", store |-> "local"]
         ELSE IF ~cfg.fileExists
         THEN [exc |-> "", store |-> "local"]
         ELSE IF cfg.initFails
         THEN [exc |-> "FirebaseError", store |-> "None"]
         ELSE [exc |-> "", store |-> "firebase"]
    ELSE [exc |-> "", store |-> "local"]

GetMetadataDb(cfg) ==
    IF Lower(cfg.dbType) = "firebase" /\ cfg.sdk
    THEN IF ~Truthy(cfg.path) \/ ~Truthy(cfg.project)
         THEN [exc |-> "", store |-> "local"]
         ELSE IF ~cfg.fileExists
         THEN [exc |-> "", store |-> "local"]
         ELSE IF cfg.initFails
         THEN [exc |-> "", store |-> "local"]
         ELSE [exc |-> "", store |-> "firebase"]
    ELSE [exc |-> "", store |-> "local"]

\* VECTOR_STORE_TYPE and PINECONE_API_KEY
VectorConfigs ==
    [storeType : {"chromadb", "pinecone", "Pinecone", "faiss"},
     apiKey : {"None", "", "pc-key"}]

GetVectorStore(cfg) ==
    IF Lower(cfg.storeType) = "pinecone"
    THEN IF ~Truthy(cfg.apiKey)
         THEN [exc |-> "ValueError: PINECONE_API_KEY environment variable is required",
               store |-> "None"]
         ELSE [exc |-> "", store |-> "pinecone"]
    ELSE IF Lower(cfg.storeType) = "chromadb"
    THEN [exc |-> "", store |-> "chromadb"]
    ELSE [exc |-> "ValueError: Unsupported VECTOR_STORE_TYPE", store |-> "None"]

\* ModelFactory.MODEL_CONFIGS: the models of every provider
ModelConfigs ==
    [openai |-> {"gpt-3.5-turbo", "gpt-4", "gpt-4-turbo", "text-davinci-003"},
     claude |-> {"claude-2", "claude-3-sonnet", "claude-3-opus", "claude-instant"},
     gemini |-> {"gemini-pro", "gemini-pro-vision"}]

\* the class MODEL_CONFIGS gives the models of a provider
ModelClass(provider) ==
    CASE provider = "openai" -> "OpenAIModel"
      [] provider = "claude" -> "ClaudeModel"
      [] provider = "gemini" -> "GeminiModel"

\* a factory that answers an unknown model with the provider's first model
CreateModelLenient(provider, modelName, apiKey) ==
    LET p == Lower(provider) IN
    IF p \notin DOMAIN ModelConfigs
    THEN [exc |-> "ValueError: Unsupported provider", constructed |-> << >>,
          model |-> "None"]
    ELSE LET name == IF modelName \in ModelConfigs[p] THEN modelName
                     ELSE CHOOSE m \in ModelConfigs[p] : TRUE
         IN [exc |-> "", constructed |-> << ModelClass(p) >>,
             model |-> [class |-> ModelClass(p), model_name |-> name, api_key |-> apiKey]]

\* create_model: constructed lists the provider clients the call constructed
CreateModel(provider, modelName, apiKey) ==
    LET p == Lower(provider) IN
    IF p \notin DOMAIN ModelConfigs
    THEN [exc |-> "ValueError: Unsupported provider", constructed |-> << >>,
          model |-> "None"]
    ELSE IF modelName \notin ModelConfigs[p]
    THEN [exc |-> "ValueError: Unsupported model", constructed |-> << >>,
          model |-> "None"]
    ELSE [exc |-> "", constructed |-> << ModelClass(p) >>,
          model |-> [class |-> ModelClass(p), model_name |-> modelName,
                     api_key |-> apiKey]]

\* MODEL_PROVIDER (openai when not set), MODEL_NAME and the three API keys
ModelEnvs ==
    [provider : {"openai", "OpenAI", "claude", "gemini", "mistral"},
     modelName : {"None", "gpt-4", "claude-2", "gpt-5"},
     openaiKey : {"None", "sk-1"},
     anthropicKey : {"None", "sk-2"},
     googleKey : {"None", "sk-3"}]

\* the model get_model takes when MODEL_NAME is not set
DefaultModel(provider) ==
    CASE provider = "openai" -> "gpt-3.5-turbo"
      [] provider = "claude" -> "claude-2"
      [] provider = "gemini" -> "gemini-pro"
      [] OTHER -> "None"

\* the API key get_model reads for the provider
ProviderKey(provider, env) ==
    CASE provider = "openai" -> env.openaiKey
      [] provider = "claude" -> env.anthropicKey
      [] provider = "gemini" -> env.googleKey
      [] OTHER -> "None"

GetModel(env) ==
    LET provider == Lower(env.provider)
        apiKey == ProviderKey(provider, env)
        modelName == IF Truthy(env.modelName) THEN env.modelName
                     ELSE DefaultModel(provider)
    IN IF ~Truthy(apiKey)
       THEN [exc |-> "ValueError: API key not found for provider", constructed |-> << >>,
             model |-> "None"]
       ELSE CreateModel(provider, modelName, apiKey)

(***************************************************************************)
(* external_ai.py: query_chatgpt.  responses lists what the API answers to *)
(* the successive requests: a status code, or "exc" when requests.post     *)
(* raises a RequestException.  The content of the n-th answer is           *)
(* <<"content", n>>.                                                       *)
(***************************************************************************)
ApiResponses == {"200", "200_malformed", "429", "500", "500_names_429", "exc"}

\* a loop that goes on to another attempt after every attempt
MayRetryAlways(attempt) == TRUE

\* if attempt < max_retries - 1
MayRetry(attempt) == attempt < MaxRetries - 1

\* The loop of query_chatgpt from the attempt numbered attempt (from 0),
\* having slept for slept seconds.  The import of time inside the function
\* makes time a local name, bound only once the rate-limit branch has run
\* (timeBound): before that, time.sleep in the handler of the request
\* exception raises UnboundLocalError, which the outer except clause turns
\* into a result, as it does with the KeyError of an answer without choices.
\* A loop that ends without a return makes the function return None.
RECURSIVE ChatAttempts(_, _, _, _)
ChatAttempts(responses, attempt, slept, timeBound) ==
    IF attempt >= MaxRetries
    THEN [returned |-> "None", attempts |-> attempt, slept |-> slept]
    ELSE LET response == responses[attempt + 1] IN
         IF response = "200"
         THEN [success |-> TRUE, answer |-> <<"content", attempt + 1>>,
               attempts |-> attempt + 1, slept |-> slept]
         ELSE IF response = "200_malformed"
         THEN [success |-> FALSE, error |-> "KeyError",
               attempts |-> attempt + 1, slept |-> slept]
         ELSE IF response = "429"
         THEN IF MayRetry(attempt)
              THEN ChatAttempts(responses, attempt + 1, slept + (attempt + 1) * 2, TRUE)
              ELSE [success |-> FALSE, error |-> "Rate limit exceeded",
                    attempts |-> attempt + 1, slept |-> slept]
         ELSE IF response = "exc"
         THEN IF MayRetry(attempt)
              THEN IF timeBound
                   THEN ChatAttempts(responses, attempt + 1, slept + 2, timeBound)
                   ELSE [success |-> FALSE, error |-> "UnboundLocalError",
                         attempts |-> attempt + 1, slept |-> slept]
              ELSE [success |-> FALSE, error |-> "Request failed",
                    attempts |-> attempt + 1, slept |-> slept]
         ELSE IF response = "500_names_429"
         THEN [success |-> FALSE, error |-> "OpenAI API error: 429 in the body",
               attempts |-> attempt + 1, slept |-> slept]
         ELSE [success |-> FALSE, error |-> "OpenAI API error",
               attempts |-> attempt + 1, slept |-> slept]

QueryChatGPT(hasKey, responses) ==
    IF ~hasKey
    THEN [success |-> FALSE, error |-> "OpenAI API key not configured",
          attempts |-> 0, slept |-> 0]
    ELSE ChatAttempts(responses, 0, 0, FALSE)

\* simulate_copilot_response: one request to the same API, no retry
SimulateCopilotResponse(hasKey, response) ==
    IF ~hasKey
    THEN [success |-> FALSE, error |-> "OpenAI API key not configured",
          source |-> "GitHub Copilot", requests |-> 0]
    ELSE IF response = "200"
    THEN [success |-> TRUE, source |-> "GitHub Copilot", requests |-> 1]
    ELSE IF response \in {"exc", "200_malformed"}
    THEN [success |-> FALSE, error |-> "exception", source |-> "GitHub Copilot",
          requests |-> 1]
    ELSE [success |-> FALSE, error |-> "Copilot simulation error",
          source |-> "GitHub Copilot", requests |-> 1]

\* query_google_search: one request to the search API
QueryGoogleSearch(hasCredentials, ok) ==
    IF ~hasCredentials
    THEN [success |-> FALSE, error |-> "Google API credentials not configured",
          source |-> "Google Search"]
    ELSE IF ok
    THEN [success |-> TRUE, source |-> "Google Search"]
    ELSE [success |-> FALSE, error |-> "Google Search API error",
          source |-> "Google Search"]

\* '429' in str(error): of the error texts of query_chatgpt, only the one
\* that quotes the body of the answer can hold these characters
Names429(error) == error = "OpenAI API error: 429 in the body"

\* query_all_sources: ChatGPT, then Copilot or its demo, then Google
QueryAllSources(hasKey, responses, copilotResponse, hasCredentials, googleOk) ==
    LET chatgpt == QueryChatGPT(hasKey, responses)
        demo == "error" \in DOMAIN chatgpt /\ Names429(chatgpt.error)
        copilot == IF demo
                   THEN [success |-> TRUE, source |-> "GitHub Copilot (Demo)",
                         requests |-> 0]
                   ELSE SimulateCopilotResponse(hasKey, copilotResponse)
    IN [results |-> <<chatgpt, copilot, QueryGoogleSearch(hasCredentials, googleOk)>>,
        openaiRequests |-> chatgpt.attempts + copilot.requests]

(***************************************************************************)
(* process_uploaded_files: one iteration of its loop.  save says what the   *)
(* writing of the temporary copy does; removeFails whether os.remove        *)
(* raises.                                                                  *)
(***************************************************************************)
SaveModes == {"ok", "open_fail", "write_fail"}

\* the temporary copy that was just written is there when process_and_store
\* looks for it
UploadEnvs ==
    {e \in [save : SaveModes, removeFails : BOOLEAN, ingest : IngestEnvs] :
        /\ e.ingest.exists
        /\ e.save # "ok" => (~e.removeFails /\ e.ingest.meta = "ok"
                             /\ ~e.ingest.extractFails /\ ~e.ingest.addFails)}

UploadError(file, exc) == [success |-> FALSE, filename |-> Filename(file), error |-> exc]

\* what follows the call of process_and_store, whose outcome is r: the
\* result is appended and the temporary copy removed
AppendAndRemove(r, ups, file, removeFails) ==
    LET name == Filename(file) IN
    IF r.exc # ""
    THEN [vstore |-> r.vstore, documents |-> r.documents, uploads |-> ups \cup {name},
          results |-> << UploadError(file, r.exc) >>,
          wrote |-> {name}, events |-> <<"write">> \o r.events]
    ELSE IF removeFails
    THEN [vstore |-> r.vstore, documents |-> r.documents, uploads |-> ups \cup {name},
          results |-> << r.result, UploadError(file, "OSError: remove") >>,
          wrote |-> {name}, events |-> <<"write">> \o r.events \o <<"remove">>]
    ELSE [vstore |-> r.vstore, documents |-> r.documents, uploads |-> ups \ {name},
          results |-> << r.result >>,
          wrote |-> {name}, events |-> <<"write">> \o r.events \o <<"remove">>]

ProcessUploadedFile(vs, docs, ups, now, file, category, env) ==
    LET name == Filename(file) IN
    IF env.save = "open_fail"
    THEN [vstore |-> vs, documents |-> docs, uploads |-> ups,
          results |-> << UploadError(file, "OSError: open") >>,
          wrote |-> {}, events |-> << >>]
    ELSE IF env.save = "write_fail"
    THEN [vstore |-> vs, documents |-> docs, uploads |-> ups \cup {name},
          results |-> << UploadError(file, "OSError: write") >>,
          wrote |-> {name}, events |-> <<"write">>]
    ELSE AppendAndRemove(ProcessAndStore(vs, docs, now, file, category, env.ingest),
                         ups, file, env.removeFails)

(***************************************************************************)
(* The state machine.                                                      *)
(***************************************************************************)
Idle == [op |-> "none"]

Init ==
    /\ vstore = << >>
    /\ documents = << >>
    /\ queries = << >>
    /\ uploads = {}
    /\ last = Idle

\* process_uploaded_files is inside its loop
BatchRunning == last.op = "process_uploaded_files" /\ last.pc = "loop"

\* datetime.now() in whole seconds: what the system clock says during a call
Times == {0}

\* the numbers of chunks a caller asks for
Ks == {1, 2}

DoQuery ==
    /\ ~BatchRunning
    /\ Len(queries) < MaxLog
    /\ \E question \in Questions, k \in Ks, cf \in Filters, env \in QueryEnvs,
          now \in Times :
       \E ranking \in Rankings(Len(vstore), k) :
         /\ ReachedByQuery(vstore, ranking, k, cf, env)
         /\ \E r \in {Query(vstore, queries, now, question, ranking, k, cf, env)} :
              /\ queries' = r.queries
              /\ last' = [op |-> "query", k |-> k, category_filter |-> cf,
                          raised |-> (r.exc # ""), response |-> r.response,
                          retrieved |-> r.retrieved, llmCalls |-> r.llmCalls,
                          llmError |-> r.llmError, logError |-> r.logError,
                          searchError |-> env.searchFails]
    /\ UNCHANGED <<vstore, documents, uploads>>

\* the questions of a conversation, and the lists of follow-up questions
AllQuestions == {"q1", "q2"}

FollowUpLists == {<< >>} \cup [1..1 -> AllQuestions] \cup [1..2 -> AllQuestions]

\* what can fail while one question is asked
FollowUpEnvs ==
    {[searchFails |-> FALSE, llmFails |-> FALSE, log |-> "ok"],
     [searchFails |-> TRUE, llmFails |-> FALSE, log |-> "ok"]}

DoQueryWithFollowup ==
    /\ ~BatchRunning
    /\ Len(queries) < MaxLog
    /\ \E question \in AllQuestions, followUps \in FollowUpLists, k \in Ks,
          now \in Times :
       \E rankingOf \in [AllQuestions -> Rankings(Len(vstore), k)],
          envOf \in [AllQuestions -> FollowUpEnvs] :
         \E r \in {QueryWithFollowup(vstore, queries, now, question, followUps, k,
                                      rankingOf, envOf)} :
              /\ queries' = r.queries
              /\ last' = [op |-> "query_with_followup", question |-> question,
                          follow_up_questions |-> followUps, k |-> k,
                          rankingOf |-> rankingOf, envOf |-> envOf,
                          response |-> r.response, llmCalls |-> r.llmCalls]
    /\ UNCHANGED <<vstore, documents, uploads>>

\* process_and_store is called, the store holding at most limit chunks after it
Ingest(limit) ==
    /\ ~BatchRunning
    /\ \E file \in Files, category \in Categories, env \in IngestEnvs, now \in Times :
         \E r \in {ProcessAndStore(vstore, documents, now, file, category, env)} :
         /\ ReachedByIngest(file, env)
         /\ Len(r.vstore) <= limit
         /\ vstore' = r.vstore
         /\ documents' = r.documents
         /\ last' = [op |-> "process_and_store", file |-> file, category |-> category,
                     raised |-> (r.exc # ""), result |-> r.result,
                     events |-> r.events, stored |-> r.stored,
                     clean |-> (env.exists /\ ~env.extractFails /\ ~env.addFails
                                /\ env.meta = "ok")]
    /\ UNCHANGED <<queries, uploads>>

DoProcessAndStore == Ingest(MaxStore)

DoProcessAndStoreAlone == Ingest(MaxCorpus)

\* the corrections a caller makes to a record
Patches == {[category |-> "hr"]}

\* the ids a caller can pass: those of the stored records, and one of no record
DocIds == {documents[i]["id"] : i \in 1..Len(documents)} \cup {<<"doc", 0, 0>>}

DoUpdateDocument ==
    /\ ~BatchRunning
    /\ \E docId \in DocIds, patch \in Patches, mode \in MetaModes, now \in Times :
         \E r \in {UpdateDocument(documents, docId, patch, now, mode)} :
         /\ documents' = r.documents
         /\ last' = [op |-> "update_document", id |-> docId, mode |-> mode, ok |-> r.ok]
    /\ UNCHANGED <<vstore, queries, uploads>>

DoDeleteDocument ==
    /\ ~BatchRunning
    /\ \E docId \in DocIds, mode \in MetaModes :
         \E r \in {DeleteDocument(documents, docId, mode)} :
         /\ documents' = r.documents
         /\ last' = [op |-> "delete_document", id |-> docId, mode |-> mode, ok |-> r.ok]
    /\ UNCHANGED <<vstore, queries, uploads>>

\* the records a caller hands to create_document
DocumentInfos ==
    {[filename |-> <<"a", ".txt">>, category |-> c, total_chunks |-> 1,
      document_ids |-> << <<"a", 11000233>> >>] : c \in Categories}

\* the entries a caller hands to log_query
QueryDatas ==
    {[question |-> q, answer |-> [kind |-> "generated", text |-> q],
      documents_retrieved |-> 1, timestamp |-> 0, model |-> ModelName,
      category_filter |-> cf] : q \in {"q1", "q2"}, cf \in {"None", "HR"}}

\* A log of many questions: eleven different questions asked once each, in
\* turn, and then up to two more entries, of the first, the last or a twelfth
\* question.
QuestionNames ==
    <<"q1", "q2", "q3", "q4", "q5", "q6", "q7", "q8", "q9", "q10", "q11", "q12">>

QueryDataOf(n) ==
    [question |-> QuestionNames[n],
     answer |-> [kind |-> "generated", text |-> QuestionNames[n]],
     documents_retrieved |-> 1, timestamp |-> 0, model |-> ModelName,
     category_filter |-> IF n % 2 = 0 THEN "HR" ELSE "None"]

\* the log that log_query leaves after it was called for these questions
RECURSIVE LoggedQuestions(_)
LoggedQuestions(ns) ==
    IF ns = << >> THEN << >>
    ELSE LogQuery(LoggedQuestions(SubSeq(ns, 1, Len(ns) - 1)),
                  QueryDataOf(ns[Len(ns)]), 0, "ok").queries

LongLogs ==
    {LoggedQuestions([i \in 1..(TopQueries + 1) |-> i] \o extra) :
        extra \in {<< >>} \cup [1..1 -> {1, 11, 12}] \cup [1..2 -> {1, 11, 12}]}

\* what the local store's files do while they are read
ReadModes == {"ok", "load_fail"}

DoCreateDocument ==
    /\ ~BatchRunning
    /\ \E data \in DocumentInfos, mode \in MetaModes, now \in Times :
         \E r \in {CreateDocument(documents, data, now, mode)} :
         /\ Len(r.documents) <= MaxStore
         /\ documents' = r.documents
         /\ last' = [op |-> "create_document", mode |-> mode, raised |-> (r.exc # ""),
                     id |-> r.id]
    /\ UNCHANGED <<vstore, queries, uploads>>

DoLogQuery ==
    /\ ~BatchRunning
    /\ \E data \in QueryDatas, mode \in MetaModes, now \in Times :
         \E r \in {LogQuery(queries, data, now, mode)} :
         /\ Len(r.queries) <= MaxLog + 1
         /\ queries' = r.queries
         /\ last' = [op |-> "log_query", mode |-> mode, raised |-> (r.exc # "")]
    /\ UNCHANGED <<vstore, documents, uploads>>

DoGetDocument ==
    /\ ~BatchRunning
    /\ \E docId \in DocIds, mode \in ReadModes :
         last' = [op |-> "get_document", id |-> docId, mode |-> mode, raised |-> FALSE,
                  result |-> GetDocument(documents, docId, mode)]
    /\ UNCHANGED <<vstore, documents, queries, uploads>>

DoGetAllDocuments ==
    /\ ~BatchRunning
    /\ \E mode \in ReadModes :
         last' = [op |-> "get_all_documents", mode |-> mode, raised |-> FALSE,
                  result |-> GetAllDocuments(documents, mode)]
    /\ UNCHANGED <<vstore, documents, queries, uploads>>

DoGetQueryStats ==
    /\ ~BatchRunning
    /\ \E mode \in ReadModes :
         last' = [op |-> "get_query_stats", mode |-> mode, raised |-> FALSE,
                  result |-> GetQueryStats(queries, mode)]
    /\ UNCHANGED <<vstore, documents, queries, uploads>>

DoGetMetadataDb ==
    /\ ~BatchRunning
    /\ \E cfg \in MetadataConfigs :
         \E r \in {GetMetadataDb(cfg)} :
         last' = [op |-> "get_metadata_db", config |-> cfg, raised |-> (r.exc # ""),
                  store |-> r.store]
    /\ UNCHANGED <<vstore, documents, queries, uploads>>

DoGetVectorStore ==
    /\ ~BatchRunning
    /\ \E cfg \in VectorConfigs :
         \E r \in {GetVectorStore(cfg)} :
         last' = [op |-> "get_vector_store", config |-> cfg, raised |-> (r.exc # ""),
                  store |-> r.store]
    /\ UNCHANGED <<vstore, documents, queries, uploads>>

\* the providers, models and keys a caller passes to create_model
ProviderNames == {"openai", "OpenAI", "claude", "gemini", "mistral"}

ModelNames == {"gpt-4", "claude-2", "gemini-pro", "gpt-5"}

DoCreateModel ==
    /\ ~BatchRunning
    /\ \E provider \in ProviderNames, modelName \in ModelNames :
         \E r \in {CreateModel(provider, modelName, "sk-1")} :
         last' = [op |-> "create_model", provider |-> provider, model_name |-> modelName,
                  raised |-> (r.exc # ""), constructed |-> r.constructed,
                  model |-> r.model]
    /\ UNCHANGED <<vstore, documents, queries, uploads>>

DoGetModel ==
    /\ ~BatchRunning
    /\ \E env \in ModelEnvs :
         \E r \in {GetModel(env)} :
         last' = [op |-> "get_model", env |-> env, raised |-> (r.exc # ""),
                  constructed |-> r.constructed, model |-> r.model]
    /\ UNCHANGED <<vstore, documents, queries, uploads>>

\* what the API would answer to one request more than query_chatgpt makes
ResponseLists == [1..(MaxRetries + 1) -> ApiResponses]

DoQueryChatGPT ==
    /\ ~BatchRunning
    /\ \E hasKey \in BOOLEAN, responses \in ResponseLists :
         last' = [op |-> "query_chatgpt", hasKey |-> hasKey, responses |-> responses,
                  result |-> QueryChatGPT(hasKey, responses)]
    /\ UNCHANGED <<vstore, documents, queries, uploads>>

\* the answers of the API that matter to query_all_sources: a success, a
\* rate limit, and an error whose text holds the characters 429
SourceResponseLists ==
    [1..(MaxRetries + 1) -> {"200", "429", "500_names_429"}]

DoQueryAllSources ==
    /\ ~BatchRunning
    /\ \E hasKey \in BOOLEAN, responses \in SourceResponseLists,
          copilotResponse \in {"200", "429"}, hasCredentials \in BOOLEAN,
          googleOk \in BOOLEAN :
         \E r \in {QueryAllSources(hasKey, responses, copilotResponse,
                                    hasCredentials, googleOk)} :
         last' = [op |-> "query_all_sources", hasKey |-> hasKey,
                  responses |-> responses, results |-> r.results,
                  openaiRequests |-> r.openaiRequests]
    /\ UNCHANGED <<vstore, documents, queries, uploads>>

(***************************************************************************)
(* Two processes write to the same local store at once.  A call of         *)
(* create_document or log_query is two steps, the load of the file and the *)
(* save of the list with the new record appended, and the steps of the two *)
(* calls interleave in every way.  last holds where each writer is and     *)
(* what it loaded.                                                         *)
(***************************************************************************)
Writers == {1, 2}

WritersRunning == last.op = "concurrent_writes"

\* the file the writers share
SharedFile(kind) == IF kind = "create_document" THEN documents ELSE queries

\* the record a writer appends to the list it loaded
NewRecord(kind, loaded, data, now) ==
    IF kind = "create_document"
    THEN DictUpdate(data, [id |-> <<"doc", Len(loaded) + 1, now>>,
                           created_at |-> now, updated_at |-> now])
    ELSE DictUpdate(data, [id |-> <<"query", Len(loaded) + 1, now>>, timestamp |-> now])

\* the pairs of different records the two writers bring
WriterDatas(kind) ==
    LET datas == IF kind = "create_document" THEN DocumentInfos ELSE QueryDatas
    IN {d \in [Writers -> datas] : d[1] # d[2]}

StartWriters ==
    /\ ~BatchRunning
    /\ IF WritersRunning THEN \A w \in Writers : last.pc[w] = "done" ELSE TRUE
    /\ \E kind \in {"create_document", "log_query"} :
         /\ kind = "create_document" => Len(documents) < MaxStore
         /\ kind = "log_query" => Len(queries) <= MaxLog
         /\ \E data \in WriterDatas(kind) :
              last' = [op |-> "concurrent_writes", kind |-> kind, data |-> data,
                       pc |-> [w \in Writers |-> "load"],
                       loaded |-> [w \in Writers |-> << >>],
                       before |-> Len(SharedFile(kind)),
                       overlapped |-> FALSE]
    /\ UNCHANGED <<vstore, documents, queries, uploads>>

\* a writer loads the file; the calls overlap when the other writer has
\* loaded and not yet saved
WriterLoads ==
    /\ WritersRunning
    /\ \E w \in Writers :
         /\ last.pc[w] = "load"
         /\ last' = [last EXCEPT
                       !.pc[w] = "save",
                       !.loaded[w] = LoadJson(SharedFile(last.kind), "ok"),
                       !.overlapped = last.overlapped
                                      \/ \E o \in Writers \ {w} : last.pc[o] = "save"]
    /\ UNCHANGED <<vstore, documents, queries, uploads>>

\* a writer saves the list it loaded, with its record appended
WriterSaves ==
    /\ WritersRunning
    /\ \E w \in Writers, now \in Times :
         /\ last.pc[w] = "save"
         /\ \E written \in {SaveJson(SharedFile(last.kind),
                                      Append(last.loaded[w],
                                             NewRecord(last.kind, last.loaded[w],
                                                       last.data[w], now)),
                                      "ok")} :
              /\ last.kind = "create_document"
                    => (documents' = written /\ UNCHANGED queries)
              /\ last.kind = "log_query"
                    => (queries' = written /\ UNCHANGED documents)
         /\ last' = [last EXCEPT !.pc[w] = "done"]
    /\ UNCHANGED <<vstore, uploads>>

\* the files a user uploads
UploadedFiles == {FileA, FileC, FileD}

\* the lists of at most n uploaded files
FileLists(n) == UNION {[1..m -> UploadedFiles] : m \in 0..n}

\* process_uploaded_files is called: results = [], os.makedirs
StartBatch ==
    /\ ~BatchRunning
    /\ \E files \in FileLists(MaxBatch), category \in Categories :
         last' = [op |-> "process_uploaded_files", pc |-> "loop", files |-> files,
                  category |-> category, todo |-> files, results |-> << >>,
                  wrote |-> {}, events |-> << >>]
    /\ UNCHANGED <<vstore, documents, queries, uploads>>

\* one iteration of the loop, on the next file
BatchFile ==
    /\ BatchRunning
    /\ last.todo # << >>
    /\ \E env \in UploadEnvs, now \in Times :
         \E r \in {ProcessUploadedFile(vstore, documents, uploads, now,
                                      Head(last.todo), last.category, env)} :
         /\ ReachedByIngest(Head(last.todo), env.ingest)
         /\ Len(r.vstore) <= MaxStore
         /\ vstore' = r.vstore
         /\ documents' = r.documents
         /\ uploads' = r.uploads
         /\ last' = [last EXCEPT !.todo = Tail(last.todo),
                                 !.results = last.results \o r.results,
                                 !.wrote = last.wrote \cup r.wrote,
                                 !.events = last.events \o <<r.events>>]
    /\ UNCHANGED <<queries>>

\* the loop is over: return results
BatchReturn ==
    /\ BatchRunning
    /\ last.todo = << >>
    /\ last' = [last EXCEPT !.pc = "returned"]
    /\ UNCHANGED <<vstore, documents, queries, uploads>>

Next ==
    \/ DoQuery
    \/ DoQueryWithFollowup
    \/ DoProcessAndStore
    \/ DoUpdateDocument
    \/ DoDeleteDocument
    \/ DoCreateDocument
    \/ DoLogQuery
    \/ DoGetDocument
    \/ DoGetAllDocuments
    \/ DoGetQueryStats
    \/ DoGetMetadataDb
    \/ DoGetVectorStore
    \/ DoCreateModel
    \/ DoGetModel
    \/ DoQueryChatGPT
    \/ DoQueryAllSources
    \/ StartBatch
    \/ BatchFile
    \/ BatchReturn

Spec == Init /\ [][Next]_vars

NextPipeline == DoProcessAndStore \/ DoQuery

SpecPipeline == Init /\ [][NextPipeline]_vars

\* The knowledge bases a query can find: what one or two uploads that went
\* through leave in the stores.
CleanEnv == [exists |-> TRUE, extractFails |-> FALSE, addFails |-> FALSE, meta |-> "ok"]

EmptyCorpus == [vstore |-> << >>, documents |-> << >>]

Ingested(corpus, file, category) ==
    LET r == ProcessAndStore(corpus.vstore, corpus.documents, 0, file, category, CleanEnv)
    IN [vstore |-> r.vstore, documents |-> r.documents]

IndexedFiles == {FileA, FileB}

OneFileCorpora == {Ingested(EmptyCorpus, f, c) : f \in IndexedFiles, c \in Categories}

\* a knowledge base of short chunks, alone and followed by a longer one
ShortChunkCorpora ==
    {Ingested(EmptyCorpus, FileE, c) : c \in Categories}
    \cup {Ingested(Ingested(EmptyCorpus, FileE, c), FileB, c) : c \in Categories}

Corpora ==
    {EmptyCorpus} \cup OneFileCorpora
    \cup {Ingested(one, f, c) : one \in OneFileCorpora, f \in IndexedFiles, c \in Categories}
    \cup ShortChunkCorpora

InitQuery ==
    /\ \E corpus \in Corpora :
         /\ vstore = corpus.vstore
         /\ documents = corpus.documents
    /\ queries = << >>
    /\ uploads = {}
    /\ last = Idle

NextQuery == DoQuery

SpecQuery == InitQuery /\ [][NextQuery]_vars

\* a conversation with the engine over a knowledge base of at most one file
InitFollowup ==
    /\ \E corpus \in {EmptyCorpus} \cup OneFileCorpora :
         /\ vstore = corpus.vstore
         /\ documents = corpus.documents
    /\ queries = << >>
    /\ uploads = {}
    /\ last = Idle

NextFollowup == DoQueryWithFollowup

SpecFollowup == InitFollowup /\ [][NextFollowup]_vars

\* the statistics of a log that is empty or long
InitStats ==
    /\ vstore = << >>
    /\ documents = << >>
    /\ queries \in {<< >>} \cup LongLogs
    /\ uploads = {}
    /\ last = Idle

NextStats ==
    \/ DoLogQuery
    \/ DoGetQueryStats

SpecStats == InitStats /\ [][NextStats]_vars

NextIngest ==
    \/ DoProcessAndStore
    \/ DoUpdateDocument
    \/ DoDeleteDocument

SpecIngest == Init /\ [][NextIngest]_vars

\* the Metadata Store called directly
NextMeta ==
    \/ DoCreateDocument
    \/ DoUpdateDocument
    \/ DoDeleteDocument
    \/ DoLogQuery
    \/ DoGetDocument
    \/ DoGetAllDocuments
    \/ DoGetQueryStats

SpecMeta == Init /\ [][NextMeta]_vars

\* start-up: the factories build the stores and the model
NextConfig ==
    \/ DoGetMetadataDb
    \/ DoGetVectorStore
    \/ DoCreateModel
    \/ DoGetModel

SpecConfig == Init /\ [][NextConfig]_vars

NextExternal == DoQueryChatGPT

SpecExternal == Init /\ [][NextExternal]_vars

NextSources == DoQueryAllSources

SpecSources == Init /\ [][NextSources]_vars

NextRace ==
    \/ StartWriters
    \/ WriterLoads
    \/ WriterSaves

SpecRace == Init /\ [][NextRace]_vars

NextStore == DoProcessAndStoreAlone

SpecStore == Init /\ [][NextStore]_vars

NextBatch ==
    \/ StartBatch
    \/ BatchFile
    \/ BatchReturn

SpecBatch == Init /\ [][NextBatch]_vars

(***************************************************************************)
(* The claims.                                                             *)
(***************************************************************************)

\* C1: a query for which no chunk remains after retrieval and category
\* filtering returns success = false and no sources, and the model is not
\* invoked during the call.
C1_NoChunksNoModelCall ==
    (last.op = "query" /\ last.retrieved = 0)
        => /\ last.response.success = FALSE
           /\ last.response.sources = << >>
           /\ last.llmCalls = 0

\* a query with a category filter against an index that holds chunks, of
\* which none remains
C1_Witness ==
    /\ last.op = "query"
    /\ last.retrieved = 0
    /\ vstore # << >>
    /\ Truthy(last.category_filter)
    /\ last.response.answer.kind = "no_relevant_information"

\* C2 (as the claim states it): when at least one chunk is retrieved and the
\* invocation of the model raises, query returns, without raising, a
\* response with success = false whose answer carries the error text.
C2_ModelErrorIsNonSuccess ==
    (last.op = "query" /\ last.retrieved >= 1 /\ last.llmError)
        => /\ ~last.raised
           /\ last.response.answer.kind = "generation_error"
           /\ last.response.success = FALSE

\* C3: with a category filter set, the response has at most k sources and
\* the category of every citation equals the filter, compared without regard
\* to case.
C3_FilteredSources ==
    (last.op = "query" /\ Truthy(last.category_filter))
        => /\ Len(last.response.sources) <= last.k
           /\ \A i \in 1..Len(last.response.sources) :
                Lower(last.response.sources[i].category) = Lower(last.category_filter)

\* a filtered query for two chunks against an index with chunks of both
\* categories, which cites one chunk whose category is spelled in another
\* case than the filter
C3_Witness ==
    /\ last.op = "query"
    /\ last.category_filter = "policies"
    /\ last.k = 2
    /\ Len(last.response.sources) = 1
    /\ last.response.sources[1].category = "Policies"
    /\ \E j \in 1..Len(vstore) : vstore[j].meta["category"] = "hr"

\* C4: query and process_and_store return, without raising, a result with a
\* boolean success field, whatever fails of the extraction, the Vector
\* Store, the model and the Metadata Store.
C4_AlwaysAResult ==
    /\ last.op = "query"
        => /\ ~last.raised
           /\ "success" \in DOMAIN last.response
           /\ last.response.success \in BOOLEAN
    /\ last.op = "process_and_store"
        => /\ ~last.raised
           /\ "success" \in DOMAIN last.result
           /\ last.result.success \in BOOLEAN

\* a query during which the model and the query log both fail, against an
\* index whose chunks were stored by a process_and_store call that failed
\* at the Metadata Store
C4_Witness ==
    /\ last.op = "query"
    /\ last.llmError
    /\ last.logError
    /\ vstore # << >>
    /\ documents = << >>

\* C5 (as the claim states it): process_uploaded_files on n files returns
\* exactly n results, the i-th being the outcome of the i-th file, whichever
\* step fails.
C5_OneResultPerFile ==
    (last.op = "process_uploaded_files" /\ last.pc = "returned")
        => /\ Len(last.results) = Len(last.files)
           /\ \A i \in 1..Len(last.files) :
                last.results[i].filename = Filename(last.files[i])

\* C6 (as the claim states it): after process_uploaded_files returns, no
\* temporary copy it wrote is still in the uploads directory.
C6_NoTemporaryCopyLeft ==
    (last.op = "process_uploaded_files" /\ last.pc = "returned")
        => last.wrote \cap uploads = {}

\* C7 (as the claim states it): for a file with an unsupported extension
\* the ingestion writes no file, runs no extractor and adds nothing to the
\* stores.
C7_UnsupportedBeforeIO ==
    (last.op = "process_uploaded_files" /\ last.pc = "returned")
        => \A i \in 1..Len(last.files) :
              Lower(Suffix(Filename(last.files[i]))) \notin SupportedExtensions
                  => \A e \in 1..Len(last.events[i]) :
                        last.events[i][e] \notin {"write", "extract", "vector_add",
                                                  "meta_create"}

\* C8 (as the claim states it): the total_chunks of every Document record
\* equals the number of stored chunks whose document_id is listed in the
\* record's document_ids.
C8_TotalChunksCounts ==
    \A i \in 1..Len(documents) :
        LET listed == {documents[i].document_ids[n] :
                          n \in 1..Len(documents[i].document_ids)}
        IN documents[i].total_chunks
              = Cardinality({j \in 1..Len(vstore) :
                                vstore[j].meta["document_id"] \in listed})

\* C9 (as the claim states it): a process_and_store call that returns
\* success has stored n >= 1 chunks whose chunk_index values are 0 .. n-1 in
\* document order.
C9_ChunkIndexContiguous ==
    (last.op = "process_and_store" /\ last.result.success)
        => /\ Len(last.stored) >= 1
           /\ \A i \in 1..Len(last.stored) : last.stored[i].meta["chunk_index"] = i - 1

\* C10: a file ingested a second time right after it was ingested with
\* success, with nothing failing in either call, gets the same chunk document_ids, is
\* accepted, and the stores then hold two Document records of it and two
\* copies of each of its chunks.
C10_ReingestDuplicates ==
    [][(/\ last.op = "process_and_store" /\ last.clean /\ last.result.success
        /\ last'.op = "process_and_store" /\ last'.clean
        /\ last'.file = last.file)
        => LET n == Len(documents')
               Ids(stored) == [i \in 1..Len(stored) |-> stored[i].meta["document_id"]]
           IN /\ last'.result.success
              /\ Ids(last'.stored) = Ids(last.stored)
              /\ n = Len(documents) + 1
              /\ documents'[n].document_ids = Ids(last.stored)
              /\ documents'[n - 1].document_ids = Ids(last.stored)
              /\ documents'[n].filename = documents'[n - 1].filename
              /\ Len(vstore') = Len(vstore) + Len(last.stored)
              /\ \A i \in 1..Len(last.stored) :
                    Cardinality({j \in 1..Len(vstore') :
                                    /\ vstore'[j].content = last.stored[i].content
                                    /\ vstore'[j].meta["document_id"]
                                          = last.stored[i].meta["document_id"]}) >= 2
      ]_vars

\* the state after the second ingestion of a file of two chunks: two
\* records with the same document_ids and file name, and the chunks stored
\* twice
C10_Witness ==
    /\ last.op = "process_and_store"
    /\ Len(last.stored) = 2
    /\ last.clean
    /\ last.result.success
    /\ Len(documents) >= 2
    /\ documents[Len(documents)].document_ids = documents[Len(documents) - 1].document_ids
    /\ documents[Len(documents)].filename = documents[Len(documents) - 1].filename
    /\ Len(vstore) = 2 * Len(last.stored)

\* C11 (as the claim states it): on the local store, a write operation whose
\* rewriting of the file fails surfaces the failure: update_document and
\* delete_document return false, create_document and log_query do not
\* return as if the record were stored.
C11_WriteFailureSurfaced ==
    /\ (last.op \in {"update_document", "delete_document"} /\ last.mode = "save_fail")
          => last.ok = FALSE
    /\ (last.op \in {"create_document", "log_query"} /\ last.mode = "save_fail")
          => last.raised

\* C12: on the local store, when the data file cannot be read or parsed,
\* get_all_documents returns an empty list, get_document returns None and
\* get_query_stats returns a total of zero with empty maps, none raising.
C12_ReadFailureIsEmpty ==
    (last.op \in {"get_all_documents", "get_document", "get_query_stats"}
     /\ last.mode = "load_fail")
        => /\ ~last.raised
           /\ last.op = "get_all_documents" => last.result = << >>
           /\ last.op = "get_document" => last.result = NoRecord
           /\ last.op = "get_query_stats"
                => /\ last.result.total_queries = 0
                   /\ DOMAIN last.result.categories_searched = {}
                   /\ last.result.popular_queries = << >>

\* get_all_documents on a store that holds a record, and whose file cannot
\* be read
C12_Witness ==
    /\ last.op = "get_all_documents"
    /\ last.mode = "load_fail"
    /\ documents # << >>
    /\ last.result = << >>

\* C13: get_metadata_db never raises; it returns the cloud store exactly
\* when the cloud backend is selected, the SDK is available, the service
\* account path and the project id are set, the credentials file exists and
\* the initialization succeeds, and the local store otherwise.
C13_FallbackToLocal ==
    last.op = "get_metadata_db"
        => LET cfg == last.config
               cloud == /\ Lower(cfg.dbType) = "firebase"
                        /\ cfg.sdk
                        /\ Truthy(cfg.path)
                        /\ Truthy(cfg.project)
                        /\ cfg.fileExists
                        /\ ~cfg.initFails
           IN /\ ~last.raised
              /\ last.store = IF cloud THEN "firebase" ELSE "local"

\* the cloud backend selected with all its settings and its credentials
\* file, the initialization raising: the local store is returned
C13_Witness ==
    /\ last.op = "get_metadata_db"
    /\ last.config.dbType = "Firebase"
    /\ last.config.sdk
    /\ last.config.path = "sa.json"
    /\ last.config.project = "kb"
    /\ last.config.fileExists
    /\ last.config.initFails
    /\ ~last.raised
    /\ last.store = "local"

\* C14 (as the claim states it): with the cloud vector backend selected and
\* its API key absent, get_vector_store returns the local embedded index
\* instead of failing.
C14_VectorFallback ==
    (/\ last.op = "get_vector_store"
     /\ Lower(last.config.storeType) = "pinecone"
     /\ ~Truthy(last.config.apiKey))
        => /\ ~last.raised
           /\ last.store = "chromadb"

\* C15: create_model raises, having constructed no provider client, for
\* every provider/model pair outside the table, and for every pair of the
\* table returns a provider of the requested model; get_model raises when
\* the key of the selected provider is absent, and what it returns is of
\* the selected provider and of the configured model (the provider's
\* default when none is configured).
C15_NoSilentSubstitution ==
    /\ last.op = "create_model"
        => LET p == Lower(last.provider)
               supported == p \in DOMAIN ModelConfigs /\ last.model_name \in ModelConfigs[p]
           IN IF supported
              THEN /\ ~last.raised
                   /\ last.model.model_name = last.model_name
                   /\ last.model.class = ModelClass(p)
              ELSE /\ last.raised
                   /\ last.constructed = << >>
    /\ last.op = "get_model"
        => LET p == Lower(last.env.provider)
               wanted == IF Truthy(last.env.modelName) THEN last.env.modelName
                         ELSE DefaultModel(p)
           IN /\ ~Truthy(ProviderKey(p, last.env)) => (last.raised /\ last.constructed = << >>)
              /\ ~last.raised
                   => /\ last.model.class = ModelClass(p)
                      /\ last.model.model_name = wanted
                      /\ last.model.api_key = ProviderKey(p, last.env)

\* create_model for a provider of the table and a model the table lists
\* under another provider only
C15_Witness ==
    /\ last.op = "create_model"
    /\ last.provider = "OpenAI"
    /\ last.model_name = "claude-2"
    /\ last.raised
    /\ last.constructed = << >>

\* C16 (as the claim states it): with a rate-limit response to the first
\* two attempts and a success on the third, the call succeeds with the
\* content of the third attempt; the retries are exhausted only by the
\* fourth consecutive rate-limit response, so a call that is rate-limited
\* three times still makes its fourth attempt.
C16_RetryThenExhaust ==
    (last.op = "query_chatgpt" /\ last.hasKey)
        => /\ (/\ last.responses[1] = "429"
                /\ last.responses[2] = "429"
                /\ last.responses[3] = "200")
                 => /\ last.result.success = TRUE
                    /\ last.result.answer = <<"content", 3>>
           /\ (\A n \in 1..3 : last.responses[n] = "429")
                 => /\ last.result.attempts = 4
                    /\ last.responses[4] = "200" => last.result.success = TRUE
                    /\ last.responses[4] = "429" => last.result.success = FALSE

\* C17: when the two calls of create_document (or of log_query) on the same
\* local store run one after the other, both records are in the file after
\* them; when their load and save steps interleave, so that each loads
\* before the other has saved, exactly one of the two records is in the
\* file.
C17_LostUpdate ==
    (WritersRunning /\ \A w \in Writers : last.pc[w] = "done")
        => LET file == SharedFile(last.kind)
               Stored(w) == \E i \in (last.before + 1)..Len(file) :
                               \A key \in DOMAIN last.data[w] :
                                  key \in DOMAIN file[i] /\ file[i][key] = last.data[w][key]
           IN IF last.overlapped
              THEN /\ Len(file) = last.before + 1
                   /\ Stored(1) # Stored(2)
              ELSE /\ Len(file) = last.before + 2
                   /\ Stored(1)
                   /\ Stored(2)

\* both calls have returned, they overlapped, and the file holds one record
\* more than before instead of two
C17_Witness ==
    /\ WritersRunning
    /\ last.kind = "create_document"
    /\ \A w \in Writers : last.pc[w] = "done"
    /\ last.overlapped
    /\ Len(documents) = last.before + 1

\* C18: whatever is asked of whatever index, when at least one chunk is
\* retrieved, the call of query during which log_query raises returns the
\* response of the call during which the log is written, with success true;
\* no error of the log leaves query or becomes its response.
C18_LogFailureSwallowed ==
    \A question \in Questions, k \in Ks, cf \in Filters, llmFails \in BOOLEAN,
       now \in Times :
       \A ranking \in Rankings(Len(vstore), k) :
          LET logged == Query(vstore, queries, now, question, ranking, k, cf,
                              [searchFails |-> FALSE, llmFails |-> llmFails, log |-> "ok"])
              unlogged == Query(vstore, queries, now, question, ranking, k, cf,
                                [searchFails |-> FALSE, llmFails |-> llmFails,
                                 log |-> "raise"])
          IN logged.retrieved >= 1
               => /\ unlogged.exc = ""
                  /\ unlogged.logError
                  /\ unlogged.response = logged.response
                  /\ unlogged.response.success
                  /\ unlogged.queries = queries

\* a query has retrieved chunks, log_query has raised, and the response is a
\* success with sources
C18_Witness ==
    /\ last.op = "query"
    /\ last.retrieved >= 1
    /\ last.logError
    /\ ~last.raised
    /\ last.response.success
    /\ last.response.sources # << >>
    /\ queries = << >>

\* C19: when the similarity search fails, query returns a response with
\* success false that carries the error of the search.
C19_SearchFailureReported ==
    (last.op = "query" /\ last.searchError)
        => /\ ~last.response.success
           /\ "error" \in DOMAIN last.response
           /\ last.response.answer.kind = "processing_error"

\* C20: when the index holds chunks of the filter's category and the k chunks
\* the search returns for the question are all of other categories, query
\* returns no sources and success false through the no-relevant-information
\* response, without a call of the model.
C20_FilterAfterTopK ==
    \A question \in Questions, k \in Ks, cf \in Filters, now \in Times :
       \A ranking \in Rankings(Len(vstore), k) :
          LET top == SimilaritySearch(vstore, ranking, k, FALSE).docs
              r == Query(vstore, queries, now, question, ranking, k, cf,
                         [searchFails |-> FALSE, llmFails |-> FALSE, log |-> "ok"])
          IN (/\ Truthy(cf)
              /\ \E i \in 1..Len(vstore) : InCategory(vstore[i], cf)
              /\ top # << >>
              /\ \A j \in 1..Len(top) : ~InCategory(top[j], cf))
               => /\ r.exc = ""
                  /\ r.response.sources = << >>
                  /\ ~r.response.success
                  /\ r.response.answer.kind = "no_relevant_information"
                  /\ r.llmCalls = 0
                  /\ r.retrieved = 0

\* a filtered query of an index that holds a chunk of the filter's category
\* has found none among the chunks the search returned
C20_Witness ==
    /\ last.op = "query"
    /\ ~last.searchError
    /\ Truthy(last.category_filter)
    /\ \E i \in 1..Len(vstore) : InCategory(vstore[i], last.category_filter)
    /\ last.retrieved = 0
    /\ last.llmCalls = 0
    /\ ~last.response.success
    /\ last.response.sources = << >>

\* C21: in every success response of query, sources holds one citation for
\* each retrieved chunk, in the order of retrieval and numbered from 1; the
\* preview of a chunk of at most 200 characters is its whole content, the
\* preview of a longer chunk is its first 200 characters followed by "...",
\* and no preview is longer than 203 characters.
C21_CitationPerChunk ==
    \A question \in Questions, k \in Ks, cf \in Filters, llmFails \in BOOLEAN,
       now \in Times :
       \A ranking \in Rankings(Len(vstore), k) :
          LET docs == RetrieveDocuments(vstore, ranking, k, cf, FALSE)
              r == Query(vstore, queries, now, question, ranking, k, cf,
                         [searchFails |-> FALSE, llmFails |-> llmFails, log |-> "ok"])
              sources == r.response.sources
          IN r.response.success
               => /\ Len(sources) = Len(docs)
                  /\ \A i \in 1..Len(docs) :
                       LET c == docs[i].content
                           p == sources[i].content_preview
                       IN /\ sources[i].source_number = i
                          /\ sources[i].filename = docs[i].meta.filename
                          /\ sources[i].chunk_index = docs[i].meta.chunk_index
                          /\ p.text = c.text
                          /\ p.from = c.from
                          /\ IF c.len <= 200
                             THEN p.len = c.len /\ ~p.ellipsis
                             ELSE p.len = 200 /\ p.ellipsis
                          /\ p.len + (IF p.ellipsis THEN 3 ELSE 0) <= 203

\* a success response cites two chunks, one of exactly 200 characters whose
\* preview is whole and one longer whose preview is cut
C21_Witness ==
    /\ last.op = "query"
    /\ last.response.success
    /\ Len(last.response.sources) = 2
    /\ \E i, j \in 1..2 :
         /\ last.response.sources[i].content_preview.len = 200
         /\ ~last.response.sources[i].content_preview.ellipsis
         /\ last.response.sources[j].content_preview.ellipsis
         /\ last.response.sources[j].source_number = j

\* C22: query_with_followup returns the response of the main query; with no
\* follow-up questions it is that response unchanged, and otherwise it has a
\* follow_ups list of one entry per follow-up question, in the order given,
\* each entry holding its question and the answer and the sources of a call
\* of query for that question alone, on a log that no other call has
\* written.
C22_IndependentFollowUps ==
    last.op = "query_with_followup"
        => LET Alone(q) == Query(vstore, << >>, 0, q, last.rankingOf[q], last.k, "None",
                                 last.envOf[q]).response
               main == Alone(last.question)
               n == Len(last.follow_up_questions)
           IN IF n = 0
              THEN last.response = main
              ELSE /\ \A key \in DOMAIN main : last.response[key] = main[key]
                   /\ DOMAIN last.response = DOMAIN main \cup {"follow_ups"}
                   /\ Len(last.response.follow_ups) = n
                   /\ \A i \in 1..n :
                        LET f == last.follow_up_questions[i]
                        IN last.response.follow_ups[i]
                             = [question |-> f,
                                answer |-> Alone(f).answer,
                                sources |-> Alone(f).sources]

\* a main question with sources and two follow-up questions: another
\* question answered from other sources, and the main question once more
C22_Witness ==
    /\ last.op = "query_with_followup"
    /\ last.response.success
    /\ Len(last.follow_up_questions) = 2
    /\ last.response.follow_ups[1].sources # << >>
    /\ last.response.follow_ups[1].sources # last.response.sources
    /\ last.follow_up_questions[2] = last.question
    /\ last.response.follow_ups[2].sources = last.response.sources

\* C23: get_query_stats on a local store whose log can be read returns the
\* number of entries of the log as total_queries, counts per category that
\* sum to it, and as popular_queries at most 10 different questions, each
\* with the number of entries that ask it, in non-increasing order of that
\* number, omitting a question only when 10 are listed and none of them was
\* asked less often.
C23_StatsOfLog ==
    (last.op = "get_query_stats" /\ last.mode = "ok")
        => LET res == last.result
               pop == res.popular_queries
               Asked(q) == Cardinality({i \in 1..Len(queries) : queries[i].question = q})
               listed == {pop[i].question : i \in 1..Len(pop)}
               all == {queries[i].question : i \in 1..Len(queries)}
               RECURSIVE SumOf(_)
               SumOf(cs) == IF cs = {} THEN 0
                            ELSE LET c == CHOOSE x \in cs : TRUE
                                 IN res.categories_searched[c] + SumOf(cs \ {c})
           IN /\ res.total_queries = Len(queries)
              /\ SumOf(DOMAIN res.categories_searched) = res.total_queries
              /\ Len(pop) <= 10
              /\ Cardinality(listed) = Len(pop)
              /\ listed \subseteq all
              /\ \A i \in 1..Len(pop) : pop[i].count = Asked(pop[i].question)
              /\ \A i, j \in 1..Len(pop) : i < j => pop[i].count >= pop[j].count
              /\ all # listed => Len(pop) = 10
              /\ \A q \in all \ listed : \A i \in 1..Len(pop) : Asked(q) <= pop[i].count

\* the statistics of a log of twelve different questions, the twelfth asked
\* twice: it is listed first and two questions asked once are omitted
C23_Witness ==
    /\ last.op = "get_query_stats"
    /\ last.mode = "ok"
    /\ last.result.total_queries = 13
    /\ Len(last.result.popular_queries) = 10
    /\ last.result.popular_queries[1] = [question |-> "q12", count |-> 2]
    /\ last.result.popular_queries[10].count = 1

\* C24 (as the claim states it): the model is called for a query only after
\* the similarity search of that query has returned chunks; and when
\* process_and_store returns a metadata id, the Vector Store insertion has
\* returned before create_document was called, the chunks are in the Vector
\* Store and the Document record with that id is in the Metadata Store.
C24_StorageBeforeId ==
    /\ (last.op = "query" /\ last.llmCalls > 0)
          => (~last.searchError /\ last.retrieved >= 1)
    /\ (last.op = "process_and_store" /\ "metadata_id" \in DOMAIN last.result)
          => /\ \E i, j \in 1..Len(last.events) :
                   /\ i < j
                   /\ last.events[i] = "vector_add"
                   /\ last.events[j] = "meta_create"
             /\ \A n \in 1..Len(last.stored) :
                   \E c \in 1..Len(vstore) : vstore[c].meta = last.stored[n].meta
             /\ \E d \in 1..Len(documents) : documents[d].id = last.result.metadata_id

\* C25: whatever the API answers to each request (200, 429, another status,
\* a request exception, an answer without choices), query_chatgpt sends at
\* most 3 requests and returns a result that carries a boolean success
\* flag; it never ends without a result.
C25_BoundedAttempts ==
    last.op = "query_chatgpt"
        => /\ last.result.attempts <= 3
           /\ "success" \in DOMAIN last.result
           /\ last.result.success \in BOOLEAN
           /\ ~last.hasKey => last.result.attempts = 0
           /\ last.result.success
                 => last.responses[last.result.attempts] = "200"

\* a call that was rate-limited, then met a request exception, then was
\* rate-limited again: three requests and a result that is a failure
C25_Witness ==
    /\ last.op = "query_chatgpt"
    /\ last.hasKey
    /\ last.responses[1] = "429"
    /\ last.responses[2] = "exc"
    /\ last.responses[3] = "429"
    /\ last.result.attempts = 3
    /\ last.result.success = FALSE

\* C26 (as the claim states it): query_all_sources returns three results,
\* of ChatGPT, of Copilot or its demo, and of Google, in this order; and
\* when the ChatGPT query failed because every one of its attempts was
\* rate-limited, the second result is the demo and no request was sent to
\* OpenAI beyond the attempts of the ChatGPT query.
C26_RateLimitSkipsCopilot ==
    last.op = "query_all_sources"
        => /\ Len(last.results) = 3
           /\ last.results[1] = QueryChatGPT(last.hasKey, last.responses)
           /\ last.results[2].source \in {"GitHub Copilot", "GitHub Copilot (Demo)"}
           /\ last.results[3].source = "Google Search"
           /\ (last.hasKey /\ \A n \in 1..MaxRetries : last.responses[n] = "429")
                 => /\ last.results[2].source = "GitHub Copilot (Demo)"
                    /\ last.openaiRequests = MaxRetries

\* C27 (as the claim states it): whatever create_document and
\* delete_document calls were made on the local store, also within one clock
\* second, no two stored Document records have the same id.
C27_UniqueDocumentIds ==
    \A i, j \in 1..Len(documents) :
        documents[i].id = documents[j].id => i = j

\* C28 (as the claim states it): after a process_and_store call that
\* returned success the chunks are in the Vector Store and a Document record
\* with the returned id lists their vector ids; after one that returned
\* failure no chunk of the call is in the Vector Store; and in every state
\* each chunk of the Vector Store is listed by some Document record.
C28_AllOrNothing ==
    /\ \A c \in 1..Len(vstore) :
          \E d \in 1..Len(documents) :
             \E n \in 1..Len(documents[d].vector_ids) :
                documents[d].vector_ids[n] = vstore[c].id
    /\ last.op = "process_and_store"
          => IF last.result.success
             THEN /\ last.stored # << >>
                  /\ \E d \in 1..Len(documents) :
                        /\ documents[d].id = last.result.metadata_id
                        /\ Len(documents[d].vector_ids) = Len(last.stored)
             ELSE last.stored = << >>

\* C29 (as the claim states it): a create_document or log_query call on the
\* local store whose write works leaves the collection it found followed by
\* one new record, every earlier record unchanged, also when the read of the
\* file inside the call fails.
C29_OnlyAppends ==
    [][
        /\ (last'.op = "create_document" /\ last'.mode \in {"ok", "load_fail"})
             => /\ Len(documents') = Len(documents) + 1
                /\ SubSeq(documents', 1, Len(documents)) = documents
        /\ (last'.op = "log_query" /\ last'.mode \in {"ok", "load_fail"})
             => /\ Len(queries') = Len(queries) + 1
                /\ SubSeq(queries', 1, Len(queries)) = queries
    ]_vars

\* C30: with a Metadata Store that works, whatever is asked of whatever
\* index, a call of query that returns success true leaves the query log it
\* found followed by one new entry, whose question is the one asked and
\* whose documents_retrieved is the number of sources of the response, at
\* least 1; a call that returns success false leaves the log as it found it;
\* so total_queries grows by one exactly with the calls that retrieved a
\* chunk.
C30_LogOnlySuccesses ==
    \A question \in Questions, k \in Ks, cf \in Filters, llmFails \in BOOLEAN,
       searchFails \in BOOLEAN, now \in Times :
       \A ranking \in Rankings(Len(vstore), k) :
          LET r == Query(vstore, queries, now, question, ranking, k, cf,
                         [searchFails |-> searchFails, llmFails |-> llmFails,
                          log |-> "ok"])
              n == Len(queries)
              total == GetQueryStats(r.queries, "ok").total_queries
          IN IF r.response.success
             THEN /\ Len(r.queries) = n + 1
                  /\ SubSeq(r.queries, 1, n) = queries
                  /\ r.queries[n + 1].question = question
                  /\ r.queries[n + 1].documents_retrieved = Len(r.response.sources)
                  /\ Len(r.response.sources) >= 1
                  /\ r.retrieved >= 1
                  /\ total = n + 1
             ELSE /\ r.queries = queries
                  /\ r.retrieved = 0
                  /\ total = n

\* a query that retrieved two chunks has returned success and the log holds
\* its entry
C30_Witness ==
    /\ last.op = "query"
    /\ last.response.success
    /\ ~last.logError
    /\ Len(last.response.sources) = 2
    /\ Len(queries) = 1
    /\ queries[1].documents_retrieved = 2

====
